---- MODULE Spec2Model ----
(***************************************************************************)
(* Model of src/indexed.rs: the IndexedReader of osmpbf.                   *)
(*                                                                         *)
(*   range_included      the interval matcher (a pure function)            *)
(*   create_index        one forward scan over the blobs of the file       *)
(*   read_ways_and_deps  the two-pass query (filter ways, then emit the    *)
(*                       nodes the accepted ways reference)                *)
(*                                                                         *)
(* The file is a sequence of blobs.  I/O and decoding can fail at every    *)
(* place where the code writes `?`.                                        *)
(***************************************************************************)
EXTENDS Integers, Sequences, FiniteSets

VARIABLES
    container,  \* the file: a sequence of blobs (never changes)
    index,      \* IndexedReader.index : Vec<BlobInfo>
    rpos,       \* byte offset at which IndexedReader.reader stands
    pc,         \* "idle" | "build" | "pass1" | "pass2"
    pos,        \* cursor of the running loop (1-based position in index)
    filter,     \* the `filter` closure of the running call
    node_ids,   \* the local Vec<i64> node_ids of the running call
    log,        \* calls of element_callback made by the running/last call
    result,     \* what the last finished call returned: "none" | "Ok" | "Err"
    calls,      \* number of read_ways_and_deps calls started so far
    index0,     \* history: index when the running/last call started
    evals,      \* history: calls of `filter` made by the running/last call
    reads,      \* history: blobs decoded by the running/last call, <<pass, pos>>
    errAt,      \* history: where the last call failed, <<>> if it did not
    scanned,    \* history: did the running/last call run create_index
    prev,       \* history: <<>> or the record of the call before the last one
    m_range,    \* interval matcher on its own: the range <<lo, hi>>
    m_slice,    \* interval matcher on its own: the sorted slice
    m_out       \* interval matcher on its own: <<>> or <<result>>

vars == <<container, index, rpos, pc, pos, filter, node_ids, log, result, calls,
          index0, evals, reads, errAt, scanned, prev, m_range, m_slice, m_out>>

readerVars == <<container, index, rpos, pc, pos, filter, node_ids, log, result,
                calls, index0, evals, reads, errAt, scanned, prev>>

matcherVars == <<m_range, m_slice, m_out>>

-----------------------------------------------------------------------------
(* Bounds of the model.                                                    *)

\* most blobs in a file
MaxBlocks == 2

\* most calls of read_ways_and_deps on one reader
MaxCalls == 2

\* the interval matcher on its own is applied to values 0..MaxVal
MaxVal == 8

-----------------------------------------------------------------------------
(* Option<T>: None is the empty sequence, Some(x) the sequence <<x>>.      *)

None == <<>>

Some(x) == <<x>>

IsSome(o) == o # <<>>

Unwrap(o) == o[1]

\* Result<usize, usize> of slice::binary_search
Ok(i) == [ok |-> TRUE, at |-> i]

Err(i) == [ok |-> FALSE, at |-> i]

\* RangeInclusive::new(a, b)
RangeInclusive(a, b) == <<a, b>>

Min(a, b) == IF a <= b THEN a ELSE b

Max(a, b) == IF a >= b THEN a ELSE b

\* usize::saturating_sub
saturating_sub(a, b) == IF a >= b THEN a - b ELSE 0

-----------------------------------------------------------------------------
(* slice::binary_search, on indices 0..Len(s)-1 as in Rust.                *)

RECURSIVE BinarySearchFrom(_, _, _, _)
BinarySearchFrom(s, x, left, right) ==
    IF left >= right THEN Err(left)
    ELSE LET mid == left + ((right - left) \div 2) IN
         IF s[mid + 1] < x THEN BinarySearchFrom(s, x, mid + 1, right)
         ELSE IF s[mid + 1] > x THEN BinarySearchFrom(s, x, left, mid)
         ELSE Ok(mid)

binary_search(s, x) == BinarySearchFrom(s, x, 0, Len(s))

\* variant: the case `start == end` of (Err, Err) is not told apart
range_included_no_none(range, sorted_slice) ==
    LET s == binary_search(sorted_slice, range[1])
        e == binary_search(sorted_slice, range[2])
    IN  IF s.ok /\ e.ok THEN Some(RangeInclusive(s.at, e.at))
        ELSE IF s.ok /\ ~e.ok THEN Some(RangeInclusive(s.at, saturating_sub(e.at, 1)))
        ELSE IF ~s.ok /\ e.ok THEN Some(RangeInclusive(s.at, e.at))
        ELSE Some(RangeInclusive(s.at, saturating_sub(e.at, 1)))

(* range_included (src/indexed.rs:22-35).  range is <<start, end>>.        *)
range_included(range, sorted_slice) ==
    LET s == binary_search(sorted_slice, range[1])
        e == binary_search(sorted_slice, range[2])
    IN  IF s.ok /\ e.ok THEN Some(RangeInclusive(s.at, e.at))
        ELSE IF s.ok /\ ~e.ok THEN Some(RangeInclusive(s.at, saturating_sub(e.at, 1)))
        ELSE IF ~s.ok /\ e.ok THEN Some(RangeInclusive(s.at, e.at))
        ELSE IF s.at = e.at THEN None
        ELSE Some(RangeInclusive(s.at, saturating_sub(e.at, 1)))

\* variant: the end of the range is left out, &slice[i..j]
SubSliceExclusive(s, r) == SubSeq(s, r[1] + 1, r[2])

\* &slice[i..=j] with 0-based inclusive bounds
SubSlice(s, r) == SubSeq(s, r[1] + 1, r[2] + 1)

-----------------------------------------------------------------------------
(* Vec::sort_unstable and Vec::dedup.                                      *)

\* variant: the sort is left out
sort_unstable_left_out(s) == s

\* the elements of s in ascending order: the i-th is the value with fewer
\* than i smaller elements and at least i elements not above it
sort_unstable(s) ==
    [i \in 1..Len(s) |->
        CHOOSE v \in {s[j] : j \in DOMAIN s} :
            /\ Cardinality({j \in DOMAIN s : s[j] < v}) < i
            /\ i <= Cardinality({j \in DOMAIN s : s[j] <= v})]

\* variant: dedup is left out
dedup_left_out(s) == s

\* dedup removes consecutive repeated elements
RECURSIVE dedup(_)
dedup(s) ==
    IF Len(s) <= 1 THEN s
    ELSE IF s[1] = s[2] THEN dedup(Tail(s))
    ELSE <<s[1]>> \o dedup(Tail(s))

-----------------------------------------------------------------------------
(* The file.  A blob has a type tag, a size in bytes and, when it is an    *)
(* OsmData blob, the groups of its PrimitiveBlock.  A group holds ways     *)
(* (tag, refs), nodes (ids) and dense nodes (ids).                         *)

Way(tag, refs) == [tag |-> tag, refs |-> refs]

Group(ways, nodes, dense_nodes) ==
    [ways |-> ways, nodes |-> nodes, dense_nodes |-> dense_nodes]

HeaderBlob == [type |-> "OsmHeader", size |-> 2, groups |-> <<>>]

UnknownBlob == [type |-> "Unknown", size |-> 1, groups |-> <<>>]

\* a way that repeats a ref, a node and a dense node; ids 1..3 with a gap at 2
DataBlobA ==
    [type |-> "OsmData", size |-> 4,
     groups |-> << Group(<<Way("highway", <<1, 3, 1>>)>>, <<1>>, <<3>>) >>]

\* ways only: two ways in one group, no node
DataBlobB ==
    [type |-> "OsmData", size |-> 3,
     groups |-> << Group(<<Way("building", <<2, 1>>), Way("highway", <<3>>)>>,
                         <<>>, <<>>) >>]

\* one way and the node it references, next to a dense node nobody references
DataBlobC ==
    [type |-> "OsmData", size |-> 3,
     groups |-> << Group(<<Way("building", <<2>>)>>, <<2>>, <<1>>) >>]

\* two groups: nodes stored before the way; id 2 stored twice in the blob
DataBlobD ==
    [type |-> "OsmData", size |-> 5,
     groups |-> << Group(<<>>, <<2>>, <<>>),
                   Group(<<Way("highway", <<3, 1>>)>>, <<>>, <<2>>) >>]

BlobPool == {HeaderBlob, UnknownBlob, DataBlobA, DataBlobB, DataBlobC, DataBlobD}

RECURSIVE SeqsUpTo(_, _)
SeqsUpTo(S, n) ==
    IF n = 0 THEN {<<>>}
    ELSE LET shorter == SeqsUpTo(S, n - 1) IN
         shorter \cup {Append(s, x) : s \in {t \in shorter : Len(t) = n - 1}, x \in S}

Containers == SeqsUpTo(BlobPool, MaxBlocks)

\* the `filter` closures tried: a closure is the set of way tags it accepts
Filters == {{"building"}, {"building", "highway"}}

\* filter(&way)
Accept(f, way) == way.tag \in f

\* byte offset of the i-th blob of file c
RECURSIVE OffsetOf(_, _)
OffsetOf(c, i) == IF i <= 1 THEN 0 ELSE OffsetOf(c, i - 1) + c[i - 1].size

\* position of the blob of c that starts at byte offset off; 0 when there is none
BlobAt(c, off) ==
    IF \E i \in 1..Len(c) : OffsetOf(c, i) = off
    THEN CHOOSE i \in 1..Len(c) : OffsetOf(c, i) = off
    ELSE 0

-----------------------------------------------------------------------------
(* BlobInfo and IdRanges (src/indexed.rs:12-16, 38-49).                    *)

\* variant: a blob that is not a header is taken for a data blob
SimpleBlobTypeNoUnknown(type) ==
    IF type = "OsmHeader" THEN "Header" ELSE "Primitive"

SimpleBlobType(type) ==
    IF type = "OsmHeader" THEN "Header"
    ELSE IF type = "OsmData" THEN "Primitive"
    ELSE "Unknown"

BlobInfo(offset, blob_type, id_ranges) ==
    [offset |-> offset, blob_type |-> blob_type, id_ranges |-> id_ranges]

IdRanges(node_ids_, way_ids_, relation_ids_) ==
    [node_ids |-> node_ids_, way_ids |-> way_ids_, relation_ids |-> relation_ids_]

\* an element handed to element_callback; `at` is <<blob, group, item>>
Element(kind, at, elem) == [kind |-> kind, at |-> at, elem |-> elem]

-----------------------------------------------------------------------------
(* First pass over one decoded block (src/indexed.rs:175-213).             *)
(* acc = [node_ids, log, evals, min_node_id, max_node_id]                  *)

\* variant: the maximum is the first id seen and is never raised
check_min_max_first(acc, id) ==
    [acc EXCEPT
       !.min_node_id = Some(IF acc.min_node_id = None THEN id
                            ELSE Min(Unwrap(acc.min_node_id), id)),
       !.max_node_id = Some(IF acc.max_node_id = None THEN id
                            ELSE Unwrap(acc.max_node_id))]

\* the closure check_min_max
check_min_max(acc, id) ==
    [acc EXCEPT
       !.min_node_id = Some(IF acc.min_node_id = None THEN id
                            ELSE Min(Unwrap(acc.min_node_id), id)),
       !.max_node_id = Some(IF acc.max_node_id = None THEN id
                            ELSE Max(Unwrap(acc.max_node_id), id))]

RECURSIVE CheckAll(_, _)
CheckAll(acc, ids) ==
    IF ids = <<>> THEN acc ELSE CheckAll(check_min_max(acc, Head(ids)), Tail(ids))

\* one way of a group: call filter, push the refs, call element_callback
FilterWay(acc, f, way, at) ==
    LET seen == [acc EXCEPT !.evals = Append(acc.evals, at)] IN
    IF Accept(f, way)
    THEN [seen EXCEPT !.node_ids = acc.node_ids \o way.refs,
                      !.log = Append(acc.log, Element("Way", at, way))]
    ELSE seen

RECURSIVE FilterWays(_, _, _, _, _, _)
FilterWays(acc, f, ways, p, g, k) ==
    IF k > Len(ways) THEN acc
    ELSE FilterWays(FilterWay(acc, f, ways[k], <<p, g, k>>), f, ways, p, g, k + 1)

\* variant: a single pass that hands over, as it meets them, the nodes whose
\* id has been collected so far
FirstPassGroupEager(acc, f, group, p, g) ==
    LET a == CheckAll(CheckAll(FilterWays(acc, f, group.ways, p, g, 1), group.nodes),
                      group.dense_nodes)
        hits == SelectSeq(group.nodes, LAMBDA id : id \in {a.node_ids[i] : i \in DOMAIN a.node_ids})
    IN  [a EXCEPT !.log = a.log \o [i \in DOMAIN hits |-> Element("Node", <<p, g, i>>, hits[i])]]

FirstPassGroup(acc, f, group, p, g) ==
    CheckAll(CheckAll(FilterWays(acc, f, group.ways, p, g, 1), group.nodes),
             group.dense_nodes)

RECURSIVE FirstPassGroups(_, _, _, _, _)
FirstPassGroups(acc, f, groups, p, g) ==
    IF g > Len(groups) THEN acc
    ELSE FirstPassGroups(FirstPassGroup(acc, f, groups[g], p, g), f, groups, p, g + 1)

FirstPassBlock(ids, lg, ev, f, block, p) ==
    FirstPassGroups([node_ids |-> ids, log |-> lg, evals |-> ev,
                     min_node_id |-> None, max_node_id |-> None],
                    f, block.groups, p, 1)

\* variant: the range found for a blob is not written to its descriptor
StoreRangeDropped(info, acc) == info

\* if let (Some(min), Some(max)) = ... { info.id_ranges = Some(...) }
StoreRange(info, acc) ==
    IF IsSome(acc.min_node_id) /\ IsSome(acc.max_node_id)
    THEN [info EXCEPT !.id_ranges =
            Some(IdRanges(Some(RangeInclusive(Unwrap(acc.min_node_id),
                                              Unwrap(acc.max_node_id))),
                          None, None))]
    ELSE info

-----------------------------------------------------------------------------
(* Second pass over one block (src/indexed.rs:226-256).                    *)

\* variant: every blob that is not a header is taken for a data blob
IsPrimitiveOrUnknown(info) == info.blob_type # "Header"

\* if info.blob_type == SimpleBlobType::Primitive
IsPrimitive(info) == info.blob_type = "Primitive"

\* info.id_ranges.as_ref().and_then(|r| r.node_ids.as_ref())
NodeIdRange(info) ==
    IF info.id_ranges = None THEN None ELSE Unwrap(info.id_ranges).node_ids

\* variant: every Primitive blob with a node id range is read again,
\* whatever range_included says
SliceRangeAll(info, ids) ==
    IF ~IsPrimitive(info) THEN None
    ELSE IF NodeIdRange(info) = None THEN None
    ELSE Some(RangeInclusive(0, Len(ids) - 1))

\* the slice range of node_ids to search for this block, or None: skip it
SliceRange(info, ids) ==
    IF ~IsPrimitive(info) THEN None
    ELSE IF NodeIdRange(info) = None THEN None
    ELSE range_included(Unwrap(NodeIdRange(info)), ids)

\* variant: every node of a blob that is read is handed over
WantedAlways(ids_subslice, id) == TRUE

\* if ids_subslice.binary_search(&id).is_ok()
Wanted(ids_subslice, id) == binary_search(ids_subslice, id).ok

RECURSIVE EmitNodes(_, _, _, _, _, _, _)
EmitNodes(lg, ids_subslice, kind, ids, p, g, k) ==
    IF k > Len(ids) THEN lg
    ELSE EmitNodes(IF Wanted(ids_subslice, ids[k])
                   THEN Append(lg, Element(kind, <<p, g, k>>, ids[k]))
                   ELSE lg,
                   ids_subslice, kind, ids, p, g, k + 1)

RECURSIVE SecondPassGroups(_, _, _, _, _)
SecondPassGroups(lg, ids_subslice, groups, p, g) ==
    IF g > Len(groups) THEN lg
    ELSE SecondPassGroups(
            EmitNodes(EmitNodes(lg, ids_subslice, "Node", groups[g].nodes, p, g, 1),
                      ids_subslice, "DenseNode", groups[g].dense_nodes, p, g, 1),
            ids_subslice, groups, p, g + 1)

-----------------------------------------------------------------------------
(* IndexedReader::new (src/indexed.rs:76-82): index: vec![], nothing read. *)

Init ==
    /\ container \in Containers
    /\ index = <<>>
    /\ rpos = 0
    /\ pc = "idle"
    /\ pos = 1
    /\ filter = {}
    /\ node_ids = <<>>
    /\ log = <<>>
    /\ result = "none"
    /\ calls = 0
    /\ index0 = <<>>
    /\ evals = <<>>
    /\ reads = <<>>
    /\ errAt = None
    /\ scanned = FALSE
    /\ prev = None
    /\ m_range = <<0, 0>>
    /\ m_slice = <<>>
    /\ m_out = None

\* variant: the index is built again by every call
NeedsIndexAlways(ix) == TRUE

\* if self.index.is_empty() { self.create_index()?; }
NeedsIndex(ix) == ix = <<>>

\* variant: the ids collected by the call before are kept
NewNodeIdsKept == node_ids

\* let mut node_ids: Vec<i64> = vec![];
NewNodeIds == <<>>

\* variant: the loop does not move on to the next descriptor
NextPosStuck(p) == p

\* `for info in &mut self.index`: the iterator moves to the next descriptor
NextPos(p) == p + 1

\* variant: the error is swallowed and the loop goes on with the next blob
AfterErrorSkip(p) == [pc |-> pc, pos |-> p + 1]

\* `?` on an Err: the call returns, nothing more runs
AfterError(p) == [pc |-> "idle", pos |-> p]

\* what is remembered of a finished call when the next one starts
Finished == [filter |-> filter, result |-> result, log |-> log, index |-> index]

(* read_ways_and_deps is entered (src/indexed.rs:145-159).  When the index *)
(* is empty create_index starts: self.index.clear().                       *)
Call(f) ==
    /\ pc = "idle"
    /\ calls < MaxCalls
    /\ calls' = calls + 1
    /\ filter' = f
    /\ prev' = IF calls = 0 THEN None ELSE Some(Finished)
    /\ node_ids' = NewNodeIds
    /\ log' = <<>>
    /\ evals' = <<>>
    /\ reads' = <<>>
    /\ errAt' = None
    /\ result' = "none"
    /\ index0' = index
    /\ scanned' = NeedsIndex(index)
    /\ pc' = IF NeedsIndex(index) THEN "build" ELSE "pass1"
    /\ index' = IF NeedsIndex(index) THEN <<>> ELSE index
    /\ pos' = 1
    /\ UNCHANGED <<container, rpos, matcherVars>>

\* the call returns Err from position p of the loop of `pass`
Fail(pass, p) ==
    LET n == AfterError(p) IN
    /\ pc' = n.pc
    /\ pos' = n.pos
    /\ result' = IF n.pc = "idle" THEN "Err" ELSE result
    /\ errAt' = IF n.pc = "idle" THEN Some(<<pass, p>>) ELSE errAt

(* create_index, one turn of `for blob in &mut self.reader`                *)
(* (src/indexed.rs:88-103): the reader yields the blob at its position.    *)
CreateIndexNext ==
    /\ pc = "build"
    /\ BlobAt(container, rpos) # 0
    /\ LET blob == container[BlobAt(container, rpos)] IN
        /\ index' = Append(index, BlobInfo(rpos, SimpleBlobType(blob.type), None))
        /\ rpos' = rpos + blob.size
    /\ UNCHANGED <<container, pc, pos, filter, node_ids, log, result, calls, index0,
                   evals, reads, errAt, scanned, prev, matcherVars>>

(* create_index: `let blob = blob?;` fails (src/indexed.rs:89); the error  *)
(* goes out of read_ways_and_deps through `self.create_index()?`.          *)
CreateIndexFail ==
    /\ pc = "build"
    /\ BlobAt(container, rpos) # 0
    /\ Fail("build", Len(index) + 1)
    /\ UNCHANGED <<container, index, rpos, filter, node_ids, log, calls, index0,
                   evals, reads, scanned, prev, matcherVars>>

(* create_index: the reader is at the end of the file, Ok(())              *)
(* (src/indexed.rs:105); the first pass starts.                            *)
CreateIndexDone ==
    /\ pc = "build"
    /\ BlobAt(container, rpos) = 0
    /\ pc' = "pass1"
    /\ pos' = 1
    /\ UNCHANGED <<container, index, rpos, filter, node_ids, log, result, calls,
                   index0, evals, reads, errAt, scanned, prev, matcherVars>>

(* First pass, a blob that is not Primitive (src/indexed.rs:166).          *)
FirstPassSkip ==
    /\ pc = "pass1"
    /\ pos <= Len(index)
    /\ ~IsPrimitive(index[pos])
    /\ pos' = NextPos(pos)
    /\ UNCHANGED <<container, index, rpos, pc, filter, node_ids, log, result, calls,
                   index0, evals, reads, errAt, scanned, prev, matcherVars>>

(* First pass, a Primitive blob: seek, read, decode, filter the ways,      *)
(* record min and max node id (src/indexed.rs:167-213).                    *)
FirstPassBlob ==
    /\ pc = "pass1"
    /\ pos <= Len(index)
    /\ IsPrimitive(index[pos])
    /\ BlobAt(container, index[pos].offset) # 0
    /\ LET info == index[pos]
           p == BlobAt(container, info.offset)
           acc == FirstPassBlock(node_ids, log, evals, filter, container[p], p)
       IN  /\ node_ids' = acc.node_ids
           /\ log' = acc.log
           /\ evals' = acc.evals
           /\ index' = [index EXCEPT ![pos] = StoreRange(info, acc)]
           /\ rpos' = info.offset + container[p].size
           /\ reads' = Append(reads, <<"pass1", pos>>)
    /\ pos' = NextPos(pos)
    /\ UNCHANGED <<container, pc, filter, result, calls, index0, errAt, scanned,
                   prev, matcherVars>>

(* First pass: seek, next or to_primitiveblock fails                       *)
(* (src/indexed.rs:167, 173, 174).                                         *)
FirstPassFail ==
    /\ pc = "pass1"
    /\ pos <= Len(index)
    /\ IsPrimitive(index[pos])
    /\ Fail("pass1", pos)
    /\ UNCHANGED <<container, index, rpos, filter, node_ids, log, calls, index0,
                   evals, reads, scanned, prev, matcherVars>>

(* End of the first pass: sort_unstable and dedup (src/indexed.rs:217-221) *)
SortDedup ==
    /\ pc = "pass1"
    /\ pos > Len(index)
    /\ node_ids' = dedup(sort_unstable(node_ids))
    /\ pc' = "pass2"
    /\ pos' = 1
    /\ UNCHANGED <<container, index, rpos, filter, log, result, calls, index0,
                   evals, reads, errAt, scanned, prev, matcherVars>>

(* Second pass, a blob that is not read: not Primitive, no node id range,  *)
(* or range_included says None (src/indexed.rs:226-228).                   *)
SecondPassSkip ==
    /\ pc = "pass2"
    /\ pos <= Len(index)
    /\ SliceRange(index[pos], node_ids) = None
    /\ pos' = NextPos(pos)
    /\ UNCHANGED <<container, index, rpos, pc, filter, node_ids, log, result, calls,
                   index0, evals, reads, errAt, scanned, prev, matcherVars>>

(* Second pass, a blob that may hold wanted nodes: seek, read, decode,     *)
(* emit the nodes found in the sub-slice (src/indexed.rs:229-254).         *)
SecondPassBlob ==
    /\ pc = "pass2"
    /\ pos <= Len(index)
    /\ SliceRange(index[pos], node_ids) # None
    /\ BlobAt(container, index[pos].offset) # 0
    /\ LET info == index[pos]
           p == BlobAt(container, info.offset)
           ids_subslice == SubSlice(node_ids, Unwrap(SliceRange(info, node_ids)))
       IN  /\ log' = SecondPassGroups(log, ids_subslice, container[p].groups, p, 1)
           /\ rpos' = info.offset + container[p].size
           /\ reads' = Append(reads, <<"pass2", pos>>)
    /\ pos' = NextPos(pos)
    /\ UNCHANGED <<container, index, pc, filter, node_ids, result, calls, index0,
                   evals, errAt, scanned, prev, matcherVars>>

(* Second pass: seek, next or to_primitiveblock fails                      *)
(* (src/indexed.rs:231, 237, 238).                                         *)
SecondPassFail ==
    /\ pc = "pass2"
    /\ pos <= Len(index)
    /\ SliceRange(index[pos], node_ids) # None
    /\ Fail("pass2", pos)
    /\ UNCHANGED <<container, index, rpos, filter, node_ids, log, calls, index0,
                   evals, reads, scanned, prev, matcherVars>>

(* Ok(()) (src/indexed.rs:260)                                             *)
Return ==
    /\ pc = "pass2"
    /\ pos > Len(index)
    /\ pc' = "idle"
    /\ result' = "Ok"
    /\ UNCHANGED <<container, index, rpos, pos, filter, node_ids, log, calls,
                   index0, evals, reads, errAt, scanned, prev, matcherVars>>

Next ==
    \/ \E f \in Filters : Call(f)
    \/ CreateIndexNext
    \/ CreateIndexFail
    \/ CreateIndexDone
    \/ FirstPassSkip
    \/ FirstPassBlob
    \/ FirstPassFail
    \/ SortDedup
    \/ SecondPassSkip
    \/ SecondPassBlob
    \/ SecondPassFail
    \/ Return

Spec == Init /\ [][Next]_vars

-----------------------------------------------------------------------------
(* The interval matcher on its own: range_included applied to every range  *)
(* lo <= hi and every strictly increasing slice over 0..MaxVal.            *)

RECURSIVE Ascending(_)
Ascending(S) ==
    IF S = {} THEN <<>>
    ELSE LET m == CHOOSE x \in S : \A y \in S : x <= y IN
         <<m>> \o Ascending(S \ {m})

MatcherInit ==
    /\ m_range \in {<<lo, hi>> \in (0..MaxVal) \X (0..MaxVal) : lo <= hi}
    /\ m_slice \in {Ascending(S) : S \in SUBSET (0..MaxVal)}
    /\ m_out = None
    /\ container = <<>>
    /\ index = <<>>
    /\ rpos = 0
    /\ pc = "idle"
    /\ pos = 1
    /\ filter = {}
    /\ node_ids = <<>>
    /\ log = <<>>
    /\ result = "none"
    /\ calls = 0
    /\ index0 = <<>>
    /\ evals = <<>>
    /\ reads = <<>>
    /\ errAt = None
    /\ scanned = FALSE
    /\ prev = None

MatcherApply ==
    /\ m_out = None
    /\ m_out' = Some(range_included(m_range, m_slice))
    /\ UNCHANGED <<m_range, m_slice, readerVars>>

MatcherNext == MatcherApply

MatcherSpec == MatcherInit /\ [][MatcherNext]_vars

-----------------------------------------------------------------------------
(* Vocabulary of the properties.                                           *)

Range(s) == {s[i] : i \in DOMAIN s}

IsPoint(e) == e.kind \in {"Node", "DenseNode"}

IsPrefix(s, t) == Len(s) <= Len(t) /\ SubSeq(t, 1, Len(s)) = s

Returned(r) == pc = "idle" /\ result = r

\* positions in the file of the Primitive blobs the index lists
IndexedData ==
    {BlobAt(container, index[i].offset) :
        i \in {j \in DOMAIN index : index[j].blob_type = "Primitive"}}

\* positions of the OsmData blobs of the file
FileData == {p \in DOMAIN container : container[p].type = "OsmData"}

\* <<blob, group, item>> of every way stored in the blobs P
WaysIn(P) ==
    UNION {UNION {{<<p, g, k>> : k \in DOMAIN container[p].groups[g].ways} :
                  g \in DOMAIN container[p].groups} : p \in P}

WayAt(at) == container[at[1]].groups[at[2]].ways[at[3]]

\* <<kind, <<blob, group, item>>>> of every node and dense node stored in P
PointsIn(P) ==
    UNION {UNION {{<<"Node", <<p, g, k>>>> : k \in DOMAIN container[p].groups[g].nodes}
                  \cup {<<"DenseNode", <<p, g, k>>>> :
                           k \in DOMAIN container[p].groups[g].dense_nodes} :
                  g \in DOMAIN container[p].groups} : p \in P}

PointId(pt) ==
    IF pt[1] = "Node" THEN container[pt[2][1]].groups[pt[2][2]].nodes[pt[2][3]]
    ELSE container[pt[2][1]].groups[pt[2][2]].dense_nodes[pt[2][3]]

\* the ways the running/last call's filter was called on and accepted
AcceptedWays == {at \in Range(evals) : Accept(filter, WayAt(at))}

\* the ids in the reference lists of the accepted ways
AcceptedRefs == UNION {Range(WayAt(at).refs) : at \in AcceptedWays}

\* the callbacks that handed over the point id
Delivered(id) == {i \in DOMAIN log : IsPoint(log[i]) /\ log[i].elem = id}

\* the stored node and dense-node records of the indexed blobs with this id
Stored(id) == {pt \in PointsIn(IndexedData) : PointId(pt) = id}

-----------------------------------------------------------------------------
\* C1 (as amended): after a successful query every point id referenced by an
\* accepted way has been handed to the visitor once for each node or
\* dense-node record of the indexed RecordBatch blobs that stores it (so
\* exactly once when one record stores it), however many accepted ways
\* reference it and however often a way repeats it.
C1_OncePerStoredRecord ==
    Returned("Ok") =>
        \A id \in AcceptedRefs : Cardinality(Delivered(id)) = Cardinality(Stored(id))

\* C1 as stated: exactly once, for an arbitrary container.
C1_ExactlyOnce ==
    Returned("Ok") => \A id \in AcceptedRefs : Cardinality(Delivered(id)) = 1

\* an id repeated inside one accepted way and referenced by a second
\* accepted way, stored once, was delivered once
C1_Witness ==
    /\ Returned("Ok")
    /\ \E id \in AcceptedRefs :
          /\ Cardinality({at \in AcceptedWays : id \in Range(WayAt(at).refs)}) >= 2
          /\ \E at \in AcceptedWays :
                Cardinality({r \in DOMAIN WayAt(at).refs : WayAt(at).refs[r] = id}) >= 2
          /\ Cardinality(Stored(id)) = 1
          /\ Cardinality(Delivered(id)) = 1

\* C2: in every state of every query, successful or aborted, every Node or
\* DenseNode handed to the visitor has an id that is in the reference list
\* of a way the filter accepted in this query.
C2_OnlyReferencedPoints ==
    \A i \in DOMAIN log : IsPoint(log[i]) => log[i].elem \in AcceptedRefs

\* a blob was decoded in the second pass, one of its nodes was delivered
\* and another one, referenced by no accepted way, was not
C2_Witness ==
    /\ pc = "idle"
    /\ \E i \in DOMAIN log : IsPoint(log[i])
    /\ \E r \in Range(reads) :
          /\ r[1] = "pass2"
          /\ \E pt \in PointsIn({BlobAt(container, index[r[2]].offset)}) :
                PointId(pt) \notin AcceptedRefs

\* C3 as stated: after a successful query every accepted way of every
\* RecordBatch blob of the file was visited exactly once, no rejected way
\* was visited, and the filter was called exactly once on every way.
C3_EveryWayOfTheFile ==
    Returned("Ok") =>
        \A at \in WaysIn(FileData) :
            /\ Cardinality({i \in DOMAIN evals : evals[i] = at}) = 1
            /\ Cardinality({i \in DOMAIN log : log[i].kind = "Way" /\ log[i].at = at})
                  = IF Accept(filter, WayAt(at)) THEN 1 ELSE 0

\* C4: in every state of a query no Way callback comes after a Node or
\* DenseNode callback.
C4_WaysBeforePoints ==
    \A i \in DOMAIN log : \A j \in DOMAIN log :
        (i < j /\ IsPoint(log[i])) => log[j].kind # "Way"

\* a way was visited before a node that the file stores ahead of that way
C4_Witness ==
    \E i \in DOMAIN log : \E j \in DOMAIN log :
        /\ i < j
        /\ log[i].kind = "Way"
        /\ IsPoint(log[j])
        /\ log[j].at[1] < log[i].at[1]

\* indices (0-based) of the elements of slice that lie in the range
InRange(range, slice) ==
    {i \in 0..(Len(slice) - 1) : range[1] <= slice[i + 1] /\ slice[i + 1] <= range[2]}

SetMin(S) == CHOOSE x \in S : \A y \in S : x <= y

SetMax(S) == CHOOSE x \in S : \A y \in S : x >= y

\* tests::test_range_included (src/indexed.rs:290-304)
test_range_included ==
    /\ range_included(<<0, 0>>, <<1, 2, 3>>) = None
    /\ range_included(<<1, 1>>, <<1, 2, 3>>) = Some(<<0, 0>>)
    /\ range_included(<<2, 2>>, <<1, 2, 3>>) = Some(<<1, 1>>)
    /\ range_included(<<3, 3>>, <<1, 2, 3>>) = Some(<<2, 2>>)
    /\ range_included(<<4, 4>>, <<1, 2, 3>>) = None
    /\ range_included(<<0, 1>>, <<1, 2, 3>>) = Some(<<0, 0>>)
    /\ range_included(<<3, 4>>, <<1, 2, 3>>) = Some(<<2, 2>>)
    /\ range_included(<<4, 4>>, <<1, 2, 6>>) = None
    /\ range_included(<<2, 3>>, <<1, 2, 6>>) = Some(<<1, 1>>)
    /\ range_included(<<5, 6>>, <<1, 2, 6>>) = Some(<<2, 2>>)
    /\ range_included(<<5, 8>>, <<1, 2, 6>>) = Some(<<2, 2>>)
    /\ range_included(<<0, 8>>, <<1, 2, 6>>) = Some(<<0, 2>>)
    /\ range_included(<<0, 4>>, <<1, 2, 6>>) = Some(<<0, 1>>)

\* C5: for every range lo <= hi and every strictly increasing slice,
\* range_included returns None exactly when no element of the slice lies in
\* [lo, hi], and otherwise Some([i, j]) with i the index of the smallest and
\* j the index of the largest element inside [lo, hi]; the vectors of
\* test_range_included are instances.
C5_MatcherExact ==
    /\ test_range_included
    /\ m_out # None =>
          LET hit == InRange(m_range, m_slice) IN
          IF hit = {} THEN Unwrap(m_out) = None
          ELSE Unwrap(m_out) = Some(<<SetMin(hit), SetMax(hit)>>)

\* the matcher was applied where neither end of the range is in the slice
\* and the span is a proper part of the slice
C5_Witness ==
    /\ m_range = <<0, 4>>
    /\ m_slice = <<1, 2, 6>>
    /\ m_out = Some(Some(<<0, 1>>))

-----------------------------------------------------------------------------
(* What a query over index ix emits when nothing fails: the two passes     *)
(* applied to every descriptor in turn.                                    *)

RECURSIVE RunFirstPass(_, _, _, _)
RunFirstPass(st, f, c, i) ==
    IF i > Len(st.index) THEN st
    ELSE IF ~IsPrimitive(st.index[i]) THEN RunFirstPass(st, f, c, i + 1)
    ELSE LET info == st.index[i]
             p == BlobAt(c, info.offset)
             acc == FirstPassBlock(st.node_ids, st.log, <<>>, f, c[p], p)
         IN  RunFirstPass([index |-> [st.index EXCEPT ![i] = StoreRange(info, acc)],
                           node_ids |-> acc.node_ids, log |-> acc.log], f, c, i + 1)

RECURSIVE RunSecondPass(_, _, _)
RunSecondPass(st, c, i) ==
    IF i > Len(st.index) THEN st
    ELSE IF SliceRange(st.index[i], st.node_ids) = None THEN RunSecondPass(st, c, i + 1)
    ELSE LET info == st.index[i]
             p == BlobAt(c, info.offset)
             sub == SubSlice(st.node_ids, Unwrap(SliceRange(info, st.node_ids)))
         IN  RunSecondPass([st EXCEPT !.log = SecondPassGroups(st.log, sub, c[p].groups, p, 1)],
                           c, i + 1)

RunQuery(ix, f, c) ==
    LET one == RunFirstPass([index |-> ix, node_ids |-> <<>>, log |-> <<>>], f, c, 1)
    IN  RunSecondPass([one EXCEPT !.node_ids = dedup(sort_unstable(one.node_ids))], c, 1)

\* the index a complete scan of file c builds
FreshIndex(c) ==
    [i \in 1..Len(c) |-> BlobInfo(OffsetOf(c, i), SimpleBlobType(c[i].type), None)]

\* the index the running/last call started its first pass with
StartIndex ==
    IF scanned THEN [i \in DOMAIN index |-> [index[i] EXCEPT !.id_ranges = None]]
    ELSE index0

\* offsets and kinds of an index
Shape(ix) == [i \in DOMAIN ix |-> <<ix[i].offset, ix[i].blob_type>>]

-----------------------------------------------------------------------------
\* C6: when the first query on a reader (filter P1) succeeded, the second
\* query on that reader (filter P2) emits what P2 emits on a freshly opened
\* reader over the same file: all of it when it succeeds, a prefix of it
\* when it is aborted.
C6_ReuseEqualsFresh ==
    (pc = "idle" /\ calls = 2 /\ prev # None /\ Unwrap(prev).result = "Ok") =>
        LET fresh == RunQuery(FreshIndex(container), filter, container).log IN
        /\ result = "Ok" => log = fresh
        /\ result = "Err" => IsPrefix(log, fresh)

\* the second query used another filter, started from cached ranges and
\* emitted points, and its output differs from the first query's
C6_Witness ==
    /\ Returned("Ok")
    /\ calls = 2
    /\ prev # None
    /\ Unwrap(prev).result = "Ok"
    /\ Unwrap(prev).filter # filter
    /\ Unwrap(prev).log # log
    /\ ~scanned
    /\ \E i \in DOMAIN index0 : index0[i].id_ranges # None
    /\ \E i \in DOMAIN log : IsPoint(log[i])

\* C7: two successive queries with the same filter on one reader that both
\* return Ok emit the same sequence, and the index (offsets, kinds, ranges)
\* after the second equals the index after the first; when one of the two
\* is aborted, what it emitted is a prefix of what the other emitted.
C7_Idempotent ==
    (pc = "idle" /\ prev # None /\ Unwrap(prev).filter = filter) =>
        /\ IsPrefix(log, Unwrap(prev).log) \/ IsPrefix(Unwrap(prev).log, log)
        /\ (result = "Ok" /\ Unwrap(prev).result = "Ok") =>
              /\ log = Unwrap(prev).log
              /\ index = Unwrap(prev).index

\* the same filter ran twice with success and emitted ways and points
C7_Witness ==
    /\ Returned("Ok")
    /\ prev # None
    /\ Unwrap(prev).result = "Ok"
    /\ Unwrap(prev).filter = filter
    /\ \E i \in DOMAIN log : IsPoint(log[i])
    /\ \E i \in DOMAIN log : log[i].kind = "Way"
    /\ \E i \in DOMAIN index : index[i].id_ranges # None

\* C8 as stated: when create_index was aborted the reader is left with an
\* empty index, so that the next call builds it again.
C8_AtomicBuild ==
    (Returned("Err") /\ Unwrap(errAt)[1] = "build") => index = <<>>

\* C9: a query that fails returns Err at once.  What it emitted is a prefix
\* of what the query emits when nothing fails; a failure in the first pass
\* leaves no point visited, no blob at or after the failing one decoded and
\* their ranges as they were; a failure in the second pass leaves no blob at
\* or after the failing one decoded in that pass.  A query that returns Ok
\* emitted the complete result.
C9_FailFast ==
    (pc = "idle" /\ calls > 0) =>
        LET full == RunQuery(StartIndex, filter, container).log IN
        /\ result = "Ok" => log = full /\ errAt = None
        /\ result = "Err" =>
              LET pass == Unwrap(errAt)[1]
                  k == Unwrap(errAt)[2]
              IN  /\ IsPrefix(log, full)
                  /\ pass = "build" => log = <<>> /\ reads = <<>>
                  /\ pass = "pass1" =>
                        /\ \A i \in DOMAIN log : ~IsPoint(log[i])
                        /\ \A r \in Range(reads) : r[1] = "pass1" /\ r[2] < k
                        /\ \A j \in k..Len(index) :
                              index[j].id_ranges = StartIndex[j].id_ranges
                        /\ \A i \in DOMAIN log :
                              log[i].at[1] < BlobAt(container, index[k].offset)
                  /\ pass = "pass2" =>
                        /\ \A r \in Range(reads) : r[1] = "pass2" => r[2] < k
                        /\ \A i \in DOMAIN log :
                              IsPoint(log[i]) =>
                                 log[i].at[1] < BlobAt(container, index[k].offset)

\* a query failed in the first pass after it had visited a way, and stopped
\* short of the complete result
C9_Witness ==
    /\ Returned("Err")
    /\ Unwrap(errAt)[1] = "pass1"
    /\ Unwrap(errAt)[2] >= 2
    /\ log # <<>>
    /\ Len(log) < Len(RunQuery(StartIndex, filter, container).log)

\* C10 (as amended): the constructor reads nothing and leaves the index
\* empty; a call scans the file for blob boundaries exactly when the index
\* is empty as the call starts; a call that starts with a non-empty index
\* scans nothing and leaves length, offsets and kinds as they were.
C10_ScanOnlyWhenEmpty ==
    /\ calls = 0 => index = <<>> /\ rpos = 0 /\ reads = <<>>
    /\ calls > 0 => (scanned <=> index0 = <<>>)
    /\ (calls > 0 /\ ~scanned) => Shape(index) = Shape(index0)

\* C10 as stated: the file is scanned in the first call and in no later one.
C10_ScanOnlyInFirstCall ==
    /\ calls = 0 => index = <<>> /\ rpos = 0 /\ reads = <<>>
    /\ calls > 0 => (scanned <=> calls = 1)
    /\ calls > 1 => Shape(index) = Shape(index0)

\* a later call found the index built and went through both passes with it
C10_Witness ==
    /\ Returned("Ok")
    /\ calls = 2
    /\ ~scanned
    /\ index0 # <<>>
    /\ reads # <<>>

-----------------------------------------------------------------------------
(* Vocabulary of the properties about the index and the two passes.        *)

\* ids of the node and dense-node records of the blob descriptor j points at
BlockPointIds(j) ==
    {PointId(pt) : pt \in PointsIn({BlobAt(container, index[j].offset)})}

\* the id_ranges a first pass over the blob of descriptor j comes to
BlockRange(j) ==
    IF BlockPointIds(j) = {} THEN None
    ELSE Some([node_ids |-> Some(<<SetMin(BlockPointIds(j)), SetMax(BlockPointIds(j))>>),
               way_ids |-> None, relation_ids |-> None])

\* the running/last call is in or beyond its second pass
FirstPassDone ==
    \/ pc = "pass2"
    \/ Returned("Ok")
    \/ Returned("Err") /\ Unwrap(errAt)[1] = "pass2"

\* descriptors the given pass sought and decoded, in the order of the reads
ReadsOf(pass) ==
    LET mine == SelectSeq(reads, LAMBDA r : r[1] = pass)
    IN  [i \in DOMAIN mine |-> mine[i][2]]

\* the callbacks of the second pass
Points == SelectSeq(log, IsPoint)

-----------------------------------------------------------------------------
\* C11: when a query is aborted in its first pass at the Primitive blob of
\* descriptor k, every Primitive descriptor before k holds the node id range
\* this query computed for its blob, every descriptor at or after k holds
\* the range it had when the query started, offsets, kinds and the length
\* of the index are as they were, and the index is not empty, so that the
\* next call to read_ways_and_deps takes it as it is and scans nothing.
C11_StateAfterFailedFirstPass ==
    /\ (Returned("Err") /\ Unwrap(errAt)[1] = "pass1") =>
          LET k == Unwrap(errAt)[2] IN
          /\ k \in DOMAIN index
          /\ index[k].blob_type = "Primitive"
          /\ \A j \in 1..(k - 1) :
                index[j].id_ranges = IF index[j].blob_type = "Primitive"
                                     THEN BlockRange(j)
                                     ELSE StartIndex[j].id_ranges
          /\ \A j \in k..Len(index) : index[j].id_ranges = StartIndex[j].id_ranges
          /\ Shape(index) = Shape(StartIndex)
          /\ ~NeedsIndex(index)
    /\ (calls > 1 /\ Unwrap(prev).result = "Err" /\ Unwrap(prev).index # <<>>) =>
          /\ ~scanned
          /\ index0 = Unwrap(prev).index
          /\ pc # "build"

\* the second query on a reader failed at a descriptor that kept the range
\* of the first query, after it had gone through an earlier descriptor
C11_Witness ==
    /\ Returned("Err")
    /\ Unwrap(errAt)[1] = "pass1"
    /\ Unwrap(errAt)[2] >= 2
    /\ calls = 2
    /\ ~scanned
    /\ index[Unwrap(errAt)[2]].id_ranges # None
    /\ \E j \in 1..(Unwrap(errAt)[2] - 1) : index[j].id_ranges # None

\* the descriptors read by the second pass
Decoded2 == Range(ReadsOf("pass2"))

\* descriptor j is Primitive, has a node id range, and an id of node_ids
\* lies in that range
Overlaps(j) ==
    /\ index[j].blob_type = "Primitive"
    /\ index[j].id_ranges # None
    /\ Unwrap(index[j].id_ranges).node_ids # None
    /\ LET r == Unwrap(Unwrap(index[j].id_ranges).node_ids)
       IN  \E id \in Range(node_ids) : r[1] <= id /\ id <= r[2]

\* C12: the second pass seeks and decodes a descriptor's blob exactly when
\* the descriptor is Primitive, its node id range is set and at least one id
\* of the sorted node_ids lies in that range, and it does so once; every
\* other descriptor is passed over without a read.  When the filter accepted
\* no way, node_ids is empty, the second pass reads nothing and no node is
\* handed over.
C12_SecondPassReadsOverlapping ==
    /\ FirstPassDone =>
          /\ Decoded2 = {j \in 1..Min(pos - 1, Len(index)) : Overlaps(j)}
          /\ Cardinality(Decoded2) = Len(ReadsOf("pass2"))
          /\ AcceptedWays = {} => node_ids = <<>> /\ Decoded2 = {} /\ Points = <<>>
    /\ ~FirstPassDone => Decoded2 = {} /\ Points = <<>>

\* a successful query read one blob in its second pass and passed over a
\* Primitive blob whose range is set and holds none of the wanted ids
C12_Witness ==
    /\ Returned("Ok")
    /\ Decoded2 # {}
    /\ \E j \in DOMAIN index :
          /\ index[j].blob_type = "Primitive"
          /\ index[j].id_ranges # None
          /\ j \notin Decoded2

\* C13: once the first pass has gone through the index without an error,
\* the descriptor of every Primitive blob that stores at least one node or
\* dense node holds exactly [smallest, largest] of the ids of all of them,
\* and the descriptor of a Primitive blob without nodes, of a Header blob and
\* of an Unknown blob holds no range; way_ids and relation_ids are None
\* wherever id_ranges is set, in every state.
C13_RangesAfterFirstPass ==
    /\ FirstPassDone =>
          \A j \in DOMAIN index :
              index[j].id_ranges = IF index[j].blob_type = "Primitive"
                                   THEN BlockRange(j) ELSE None
    /\ \A j \in DOMAIN index :
          index[j].id_ranges # None =>
              /\ Unwrap(index[j].id_ranges).way_ids = None
              /\ Unwrap(index[j].id_ranges).relation_ids = None

\* the first pass is over; one descriptor holds a range that spans several
\* ids and the descriptor of a Primitive blob without nodes holds none
C13_Witness ==
    /\ pc = "pass2"
    /\ \E j \in DOMAIN index :
          /\ index[j].id_ranges # None
          /\ LET r == Unwrap(Unwrap(index[j].id_ranges).node_ids) IN r[1] < r[2]
    /\ \E j \in DOMAIN index :
          index[j].blob_type = "Primitive" /\ index[j].id_ranges = None

\* C14: when create_index has gone through a file of n blobs without an
\* error the index holds n descriptors, the i-th with the byte offset of the
\* i-th blob, with the kind its type tag stands for (OsmHeader: Header,
\* OsmData: Primitive, any other: Unknown) and with no range; while it runs
\* and when it ends no blob has been decoded, the filter has not been called
\* and nothing has been handed to the callback.
C14_BuildListsEveryBlob ==
    /\ (scanned /\ pc = "pass1" /\ pos = 1) =>
          /\ Len(index) = Len(container)
          /\ \A i \in DOMAIN index :
                /\ index[i].offset = OffsetOf(container, i)
                /\ index[i].blob_type =
                      (CASE container[i].type = "OsmHeader" -> "Header"
                         [] container[i].type = "OsmData" -> "Primitive"
                         [] OTHER -> "Unknown")
                /\ index[i].id_ranges = None
          /\ reads = <<>> /\ evals = <<>> /\ log = <<>>
    /\ pc = "build" =>
          /\ reads = <<>> /\ evals = <<>> /\ log = <<>>
          /\ \A i \in DOMAIN index : index[i].id_ranges = None

\* a build has just ended over a file that holds an Unknown blob next to a
\* blob of another kind
C14_Witness ==
    /\ scanned
    /\ pc = "pass1"
    /\ pos = 1
    /\ \E i \in DOMAIN index : index[i].blob_type = "Unknown"
    /\ \E i \in DOMAIN index : index[i].blob_type # "Unknown"

\* C15: in every state of a query the Way callbacks come in the order of
\* the blobs in the file, and so do the Node and DenseNode callbacks: of two
\* callbacks of the same pass the earlier one is for a blob that is not
\* behind the blob of the later one.  The nodes come in the order they are
\* stored in, which need not be the order of their ids.
C15_CallbacksInFileOrder ==
    \A i \in DOMAIN log : \A j \in DOMAIN log :
        (i < j /\ (IsPoint(log[i]) <=> IsPoint(log[j]))) => log[i].at[1] <= log[j].at[1]

\* a node of an earlier blob was handed over before a node of a later blob
\* with a smaller id
C15_Witness ==
    \E i \in DOMAIN log : \E j \in DOMAIN log :
        /\ i < j
        /\ IsPoint(log[i])
        /\ IsPoint(log[j])
        /\ log[i].at[1] < log[j].at[1]
        /\ log[i].elem > log[j].elem

\* s is strictly increasing
StrictlyIncreasing(s) == \A i \in 1..(Len(s) - 1) : s[i] < s[i + 1]

\* the descriptors the first pass of the running/last call has gone past
FirstPassCursor ==
    IF FirstPassDone THEN Len(index) + 1
    ELSE IF pc = "pass1" \/ (Returned("Err") /\ Unwrap(errAt)[1] = "pass1") THEN pos
    ELSE 1

\* C16: in every query the first pass seeks and decodes the blob of every
\* Primitive descriptor it has gone past exactly once and in the order of
\* the index, all of them once it is over; neither pass ever reads a blob
\* whose kind is Header or Unknown: such a blob keeps its descriptor as it
\* is and no filter call and no callback comes from it.
C16_OnlyDataBlobsAreRead ==
    /\ StrictlyIncreasing(ReadsOf("pass1"))
    /\ StrictlyIncreasing(ReadsOf("pass2"))
    /\ Range(ReadsOf("pass1")) =
          {j \in 1..(FirstPassCursor - 1) : index[j].blob_type = "Primitive"}
    /\ \A r \in Range(reads) :
          /\ index[r[2]].blob_type = "Primitive"
          /\ container[BlobAt(container, index[r[2]].offset)].type = "OsmData"
    /\ \A j \in DOMAIN index :
          index[j].blob_type # "Primitive" =>
              /\ index[j].id_ranges = None
              /\ (calls > 0 /\ ~scanned) => index[j] = index0[j]
    /\ \A i \in DOMAIN log : container[log[i].at[1]].type = "OsmData"
    /\ \A i \in DOMAIN evals : container[evals[i][1]].type = "OsmData"

\* a successful query over an index that lists a Header or Unknown blob
\* ahead of a Primitive blob read the Primitive blob in both passes
C16_Witness ==
    /\ Returned("Ok")
    /\ \E j \in DOMAIN index :
          /\ index[j].blob_type = "Primitive"
          /\ j \in Range(ReadsOf("pass1"))
          /\ j \in Decoded2
          /\ \E i \in 1..(j - 1) : index[i].blob_type # "Primitive"

\* the node and dense-node records of group g of blob p, as stored
RecordsOfGroup(p, g) ==
    LET grp == container[p].groups[g] IN
    [k \in DOMAIN grp.nodes |-> [kind |-> "Node", at |-> <<p, g, k>>, elem |-> grp.nodes[k]]]
    \o [k \in DOMAIN grp.dense_nodes |->
           [kind |-> "DenseNode", at |-> <<p, g, k>>, elem |-> grp.dense_nodes[k]]]

RECURSIVE RecordsOfBlob(_, _)
RecordsOfBlob(p, g) ==
    IF g > Len(container[p].groups) THEN <<>>
    ELSE RecordsOfGroup(p, g) \o RecordsOfBlob(p, g + 1)

\* a second pass that reads every Primitive blob of the index from
\* descriptor j on and hands over every record whose id is in ids
RECURSIVE NaiveSecondPass(_, _)
NaiveSecondPass(ids, j) ==
    IF j > Len(index) THEN <<>>
    ELSE (IF index[j].blob_type = "Primitive"
          THEN SelectSeq(RecordsOfBlob(BlobAt(container, index[j].offset), 1),
                         LAMBDA e : e.elem \in ids)
          ELSE <<>>) \o NaiveSecondPass(ids, j + 1)

\* C17: the Node and DenseNode callbacks of a successful query are, in
\* number, content and order, those of a second pass that reads every
\* Primitive blob of the index in turn and hands over every node whose id is
\* in the whole of node_ids: neither the blobs passed over nor the cut to a
\* sub-slice lose a node.
C17_SkipLosesNothing ==
    Returned("Ok") => Points = NaiveSecondPass(Range(node_ids), 1)

\* a successful query handed over nodes, passed over a Primitive blob and
\* searched a blob in a proper sub-slice of node_ids
C17_Witness ==
    /\ Returned("Ok")
    /\ Points # <<>>
    /\ \E j \in DOMAIN index : index[j].blob_type = "Primitive" /\ j \notin Decoded2
    /\ \E j \in Decoded2 :
          SliceRange(index[j], node_ids) # Some(<<0, Len(node_ids) - 1>>)

\* C18: on a reader whose index lists the whole file, a query that returns
\* Ok emits what its filter emits on a freshly opened reader, whatever
\* queries were aborted on the reader before; and in the second pass every
\* Primitive descriptor was gone through by the first pass of the same
\* query and holds the range of its blob, so that no range left behind by
\* an aborted query is looked at.
C18_RecoversAfterAbort ==
    /\ (Returned("Ok") /\ Len(index) = Len(container)) =>
          log = RunQuery(FreshIndex(container), filter, container).log
    /\ pc = "pass2" =>
          \A j \in DOMAIN index :
              index[j].blob_type = "Primitive" =>
                  /\ j \in Range(ReadsOf("pass1"))
                  /\ index[j].id_ranges = BlockRange(j)

\* a query with another filter succeeded and handed over nodes on a reader
\* whose query before was aborted and left one range written and one not
C18_Witness ==
    /\ Returned("Ok")
    /\ calls > 1
    /\ ~scanned
    /\ Len(index) = Len(container)
    /\ Unwrap(prev).result = "Err"
    /\ Unwrap(prev).filter # filter
    /\ Points # <<>>
    /\ \E j \in DOMAIN index : index0[j].id_ranges # None
    /\ \E j \in DOMAIN index : index0[j].id_ranges = None /\ index[j].id_ranges # None

\* the second pass is about to call range_included for descriptor pos
MatcherCalled ==
    /\ pc = "pass2"
    /\ pos <= Len(index)
    /\ IsPrimitive(index[pos])
    /\ NodeIdRange(index[pos]) # None

\* C19: whenever the second pass calls range_included, node_ids is strictly
\* increasing and the range of the descriptor has min <= max; when the
\* result is Some([i, j]) then 0 <= i <= j < Len(node_ids), so the sub-slice
\* is inside node_ids; and wherever saturating_sub(end, 1) is evaluated end
\* is at least 1.
C19_MatcherCalledInBounds ==
    MatcherCalled =>
        LET r == Unwrap(NodeIdRange(index[pos]))
            s == binary_search(node_ids, r[1])
            e == binary_search(node_ids, r[2])
            out == range_included(r, node_ids)
        IN  /\ StrictlyIncreasing(node_ids)
            /\ r[1] <= r[2]
            /\ out # None =>
                  /\ 0 <= Unwrap(out)[1]
                  /\ Unwrap(out)[1] <= Unwrap(out)[2]
                  /\ Unwrap(out)[2] < Len(node_ids)
            /\ (~e.ok /\ (s.ok \/ s.at # e.at)) => e.at >= 1

\* range_included is called with a range whose ends are both missing from
\* node_ids while an id lies between them: saturating_sub is evaluated
C19_Witness ==
    /\ MatcherCalled
    /\ LET r == Unwrap(NodeIdRange(index[pos]))
           s == binary_search(node_ids, r[1])
           e == binary_search(node_ids, r[2])
       IN  ~s.ok /\ ~e.ok /\ s.at # e.at

-----------------------------------------------------------------------------
(* A call that has started runs on: the statement it is at is executed,    *)
(* with whichever outcome the reader gives it.  Nothing makes the caller   *)
(* call again, so Call is left out of the fairness condition.              *)

Step ==
    \/ CreateIndexNext
    \/ CreateIndexFail
    \/ CreateIndexDone
    \/ FirstPassSkip
    \/ FirstPassFail
    \/ FirstPassBlob
    \/ SortDedup
    \/ SecondPassSkip
    \/ SecondPassFail
    \/ SecondPassBlob
    \/ Return

FairSpec == Spec /\ WF_vars(Step)

\* C20: over a finite file, with a filter and a callback that return, every
\* call to read_ways_and_deps that has started returns: with Ok once the
\* second pass has gone past the last descriptor, or with Err from the first
\* read that failed.  While a loop runs every turn takes the next blob or
\* descriptor, so that each pass sees each descriptor at most once, and a
\* call that has returned does nothing more until it is called again.
C20_EveryCallReturns ==
    /\ (pc # "idle") ~> (pc = "idle")
    /\ [](Returned("Ok") => (pos = Len(index) + 1 /\ errAt = None))
    /\ [](Returned("Err") =>
             (errAt # None /\ (Unwrap(errAt)[1] # "build" => Unwrap(errAt)[2] = pos)))
    /\ [][/\ (pc = "build" /\ pc' = "build") => Len(index') = Len(index) + 1
          /\ (pc \in {"pass1", "pass2"} /\ pc' = pc) => pos' = pos + 1
          /\ pc = "idle" => (pc' # "idle" /\ calls' = calls + 1)]_vars

\* the second call on a reader returned Ok after both passes read blobs of
\* an index of several descriptors, the call before having returned Err
C20_Witness ==
    /\ Returned("Ok")
    /\ calls > 1
    /\ Unwrap(prev).result = "Err"
    /\ Len(index) >= 2
    /\ pos = Len(index) + 1
    /\ ReadsOf("pass1") # <<>>
    /\ ReadsOf("pass2") # <<>>

====
